---- MODULE Spec2Model ----
(***************************************************************************)
(* Model of the audio resolution pipeline of src/main.py: the bounded TTL  *)
(* cache (AudioCache), the retry orchestrator (get_audio_url_with_retry),  *)
(* the fallback chain (get_audio_from_alternative_sources), the format     *)
(* selector (extract_best_audio_url) and the two entry points              *)
(* get_audio_url (/play) and redirect_to_audio (/redirect), plus the       *)
(* administrative clear_cache.                                             *)
(***************************************************************************)
EXTENDS Integers, Sequences, FiniteSets, TLC

VARIABLES
    cache,        \* audio_cache.cache: the dict, as the sequence of its entries in iteration order
    now,          \* time.time(), in whole seconds
    ydl_ua,       \* YDL_OPTS["http_headers"]["User-Agent"] (module-level, shared)
    ydl_client,   \* YDL_OPTS["extractor_args"]["youtube"]["player_client"] (module-level, shared)
    pc,           \* per task: position of the request handler
    ep,           \* per task: entry point of the current request, "play" or "redirect"
    vid,          \* per task: the video_id path parameter
    attempt,      \* per task: loop variable of get_audio_url_with_retry (0-based)
    alt,          \* per task: index into alternative_instances (1-based)
    info,         \* per task: the raw response held by the handler
    resp,         \* per task: the HTTP response of the current request
    trace,        \* per task: the cache reads/writes, upstream calls and sleeps of the current request
    victim        \* per task: the key `next(iter(self.cache))` returned inside AudioCache.set

vars == <<cache, now, ydl_ua, ydl_client, pc, ep, vid, attempt, alt, info, resp,
          trace, victim>>

-----------------------------------------------------------------------------
\* Bounds of the model.

\* AudioCache.max_size (100 in the code), scaled down
max_size == 2
\* AudioCache.ttl (1800 s in the code), scaled down
ttl == 2
\* the clock stops at MaxTime
MaxTime == 3
\* the longest candidate list ('formats') given to the format selector
MaxFormats == 3

\* get_audio_url_with_retry(max_retries=3)
max_retries == 3

-----------------------------------------------------------------------------
\* Values.

\* Python's None, for string-valued fields
None == "None"
\* an absent or None numeric field of a format dict
NoNum == -1

\* the threads that run request handlers
Tasks == {"t1", "t2"}

\* The path parameters requests are made with: three well-formed identifiers
\* and three malformed ones (empty, too short, too long).
ValidIds == {"dQw4w9WgXcQ", "aaaaaaaaaaa", "bbbbbbbbbbb"}
Ids == ValidIds \cup {"", "short", "twelve_chars"}

\* the pool of identity strings of get_audio_url_with_retry: of the five
\* strings of the code, the first (the one YDL_OPTS starts with) and one other
user_agents == <<"Chrome120/Windows", "Chrome120/Mac">>
\* the User-Agent YDL_OPTS is defined with: the same string as user_agents[1]
DefaultUA == "Chrome120/Windows"
\* the player_client YDL_OPTS is defined with, and the one written at attempt > 0
DefaultClient == <<"android", "web">>
ReducedClient == <<"tv", "web">>

alternative_instances == <<"yewtu.be", "piped.video", "inv.riverside.rocks", "piped-api.kavin.rocks">>

\* random.uniform(0, 1), in whole seconds: its two extremes
Jitter == {0, 1}

-----------------------------------------------------------------------------
\* Raw responses of ydl.extract_info.

Fmt(acodec, vcodec, abr, filesize, url) ==
    [acodec |-> acodec, vcodec |-> vcodec, abr |-> abr, filesize |-> filesize,
     filesize_approx |-> NoNum, url |-> url]

\* extract_info returned None
InfoNone == [present |-> FALSE, url |-> None, formats |-> <<>>, title |-> None, has_title |-> FALSE]
\* a dict with neither 'url' nor 'formats'
InfoBare == [present |-> TRUE, url |-> None, formats |-> <<>>, title |-> "Song", has_title |-> TRUE]
\* a dict with a top-level 'url' and no 'title' key
InfoDirect == [present |-> TRUE, url |-> "https://cdn/direct", formats |-> <<>>, title |-> None, has_title |-> FALSE]
\* a dict with a candidate list and a title
InfoFormats ==
    [present |-> TRUE, url |-> None,
     formats |-> << Fmt("mp4a", "none", 128, NoNum, "https://cdn/a128"),
                    Fmt("opus", "none", 256, NoNum, "https://cdn/a256"),
                    Fmt("mp4a", "avc1", 0, NoNum, "https://cdn/av") >>,
     title |-> "Song", has_title |-> TRUE]
\* a dict whose only candidate carries no audio
InfoVideoOnly ==
    [present |-> TRUE, url |-> None,
     formats |-> << Fmt("none", "avc1", NoNum, NoNum, "https://cdn/v") >>,
     title |-> "Song", has_title |-> TRUE]
\* a dict whose 'title' is None (the extractor could not obtain a title)
InfoNoTitle == [present |-> TRUE, url |-> "https://cdn/direct", formats |-> <<>>, title |-> None, has_title |-> TRUE]

\* What extract_info can return for an identifier: nothing usable (at any time,
\* for any identifier), or the item's data, which is a property of the item.
Unusables == {InfoNone, InfoBare}
Catalog(id) ==
    IF id = "dQw4w9WgXcQ" THEN {InfoDirect}
    ELSE IF id = "aaaaaaaaaaa" THEN {InfoFormats}
    ELSE {InfoVideoOnly, InfoNoTitle}
Responses(id) == Unusables \cup Catalog(id)

\* a test that takes None for a value
Truthy_NoneCounts(s) == s # ""

\* the truth value of a Python string or None
Truthy(s) == s # None /\ s # ""

\* `info and (info.get('url') or info.get('formats'))`
Usable(i) == i.present /\ (Truthy(i.url) \/ i.formats # <<>>)

-----------------------------------------------------------------------------
\* Format selector.

\* `x.get('abr', 0) or 0`
Or0(x) == IF x = NoNum THEN 0 ELSE x

\* the sort key: (abr or 0, filesize or filesize_approx or 0)
SortKey(f) ==
    << Or0(f.abr),
       IF Or0(f.filesize) # 0 THEN f.filesize ELSE Or0(f.filesize_approx) >>

\* a comparison of the bitrates alone
KeyGreater_BitrateOnly(a, b) == a[1] > b[1]

\* tuple comparison a > b
KeyGreater(a, b) == a[1] > b[1] \/ (a[1] = b[1] /\ a[2] > b[2])

\* list.sort(key=SortKey, reverse=True): stable, descending
RECURSIVE InsertDesc(_, _)
InsertDesc(f, s) ==
    IF s = <<>> THEN <<f>>
    ELSE IF KeyGreater(SortKey(f), SortKey(Head(s))) THEN <<f>> \o s
    ELSE <<Head(s)>> \o InsertDesc(f, Tail(s))

RECURSIVE SortDesc(_)
SortDesc(s) ==
    IF s = <<>> THEN <<>>
    ELSE InsertDesc(s[Len(s)], SortDesc(SubSeq(s, 1, Len(s) - 1)))

IsAudioOnly(f) == f.acodec # "none" /\ f.vcodec = "none"

\* a scan that stops at the first candidate with audio, with or without a URL
RECURSIVE FirstWithAudio_IgnoresUrl(_)
FirstWithAudio_IgnoresUrl(fs) ==
    IF fs = <<>> THEN None
    ELSE IF Head(fs).acodec # "none" THEN Head(fs).url
    ELSE FirstWithAudio_IgnoresUrl(Tail(fs))

\* `for f in formats: if f.get('acodec') != 'none' and f.get('url')`
RECURSIVE FirstWithAudio(_)
FirstWithAudio(fs) ==
    IF fs = <<>> THEN None
    ELSE IF Head(fs).acodec # "none" /\ Truthy(Head(fs).url) THEN Head(fs).url
    ELSE FirstWithAudio(Tail(fs))

extract_best_audio_url(i) ==
    IF ~i.present THEN None
    ELSE IF Truthy(i.url) THEN i.url
    ELSE IF i.formats = <<>> THEN None
    ELSE LET audio_formats == SelectSeq(i.formats, IsAudioOnly)
         IN  IF audio_formats # <<>>
             THEN SortDesc(audio_formats)[1].url
             ELSE FirstWithAudio(i.formats)

-----------------------------------------------------------------------------
\* Cache.

\* the result dict of get_audio_url (artist, duration, thumbnail and webpage_url
\* are copied from the raw response like title and are left out)
Result(id, title, url) == [video_id |-> id, title |-> title, audio_url |-> url, success |-> TRUE]
\* AudioCache.get returning None
NoData == [video_id |-> None, title |-> None, audio_url |-> None, success |-> FALSE]

HasKey(c, id) == \E i \in 1..Len(c) : c[i].id = id
KeyIndex(c, id) == CHOOSE i \in 1..Len(c) : c[i].id = id
Keys(c) == {c[i].id : i \in 1..Len(c)}

\* the comparison with <= in place of <
Fresh_Inclusive(timestamp, t) == t - timestamp <= ttl

\* `time.time() - entry["timestamp"] < self.ttl`
Fresh(timestamp, t) == t - timestamp < ttl

\* AudioCache.get(video_id) at time t
CacheGet(c, id, t) ==
    IF HasKey(c, id) /\ Fresh(c[KeyIndex(c, id)].timestamp, t)
    THEN c[KeyIndex(c, id)].data
    ELSE NoData

\* the comparison with > in place of >=
Full_OffByOne(c) == Len(c) > max_size

\* `len(self.cache) >= self.max_size`
Full(c) == Len(c) >= max_size

\* a set that keeps the entry of a key already stored (setdefault)
CacheSet_KeepsOld(c, id, data, t) ==
    LET c1 == IF Full(c) THEN Tail(c) ELSE c
        e  == [id |-> id, data |-> data, timestamp |-> t]
    IN  IF HasKey(c1, id) THEN c1 ELSE Append(c1, e)

\* a set that evicts only to make room for a key not yet stored
CacheSet_EvictsForNewKey(c, id, data, t) ==
    LET c1 == IF Full(c) /\ ~HasKey(c, id) THEN Tail(c) ELSE c
        e  == [id |-> id, data |-> data, timestamp |-> t]
    IN  IF HasKey(c1, id) THEN [c1 EXCEPT ![KeyIndex(c1, id)] = e] ELSE Append(c1, e)

\* AudioCache.set(video_id, data) at time t: the new store
CacheSet(c, id, data, t) ==
    LET c1 == IF Full(c) THEN Tail(c) ELSE c
        e  == [id |-> id, data |-> data, timestamp |-> t]
    IN  IF HasKey(c1, id) THEN [c1 EXCEPT ![KeyIndex(c1, id)] = e] ELSE Append(c1, e)

-----------------------------------------------------------------------------
\* Responses and the events of a request.

Response(status, detail, body, cached, location) ==
    [status |-> status, detail |-> detail, body |-> body, cached |-> cached,
     location |-> location]
NoResponse == Response(0, <<"", "">>, NoData, FALSE, None)
InvalidIdentifier == Response(400, <<"Invalid video ID format", "">>, NoData, FALSE, None)
PlayNotFound == Response(404, <<"Video not available. YouTube may be blocking requests from this server.", "">>, NoData, FALSE, None)
RedirectNotFound == Response(404, <<"Video not found", "">>, NoData, FALSE, None)
PlayNoAudio == Response(404, <<"No audio stream found for this video", "">>, NoData, FALSE, None)
RedirectNoAudio == Response(404, <<"No audio stream found", "">>, NoData, FALSE, None)
PlayInternal(msg) == Response(500, <<"Failed to get audio: ", msg>>, NoData, FALSE, None)
PlayOk(data, cached) == Response(200, <<"", "">>, data, cached, None)
Redirect(url) == Response(307, <<"", "">>, NoData, FALSE, url)
Cleared(previous_size) == Response(200, <<"Cache cleared successfully", ToString(previous_size)>>, NoData, FALSE, None)

\* The events of a request: a cache read ("get", which found the key fresh,
\* expired or missing), a cache write ("set", made at time `at`, which evicted
\* a key or None), an upstream call (primary attempt n or alternative endpoint
\* n, with the identity it was made with and how it ended) and a sleep of d
\* seconds after attempt n. A primary attempt ends "error" (extract_info
\* raised), "unusable" or "usable"; an alternative endpoint ends "usable" or,
\* when it raised or returned nothing usable, "skipped".
Event(ev, n, outcome, ua, client, d, at) ==
    [ev |-> ev, n |-> n, outcome |-> outcome, ua |-> ua, client |-> client, d |-> d,
     at |-> at]
GetEvent(found) == Event("get", 0, found, None, <<>>, 0, 0)
SetEvent(evicted, at) == Event("set", 0, evicted, None, <<>>, 0, at)
SleepEvent(n, d) == Event("sleep", n, "", None, <<>>, d, 0)
PrimaryEvent(n, outcome, client) == Event("primary", n, outcome, None, client, 0, 0)
AltEvent(n, outcome, ua, client) == Event("alt", n, outcome, ua, client, 0, 0)

\* how an extract_info call that returned r ended
Outcome(r) == IF Usable(r) THEN "usable" ELSE "unusable"

\* what the lookup of id at time t finds
Found(c, id, t) ==
    IF ~HasKey(c, id) THEN "missing"
    ELSE IF CacheGet(c, id, t) # NoData THEN "hit" ELSE "expired"

-----------------------------------------------------------------------------
Init ==
    /\ cache = <<>>
    /\ now = 0
    /\ ydl_ua = DefaultUA
    /\ ydl_client = DefaultClient
    /\ pc = [t \in Tasks |-> "idle"]
    /\ ep = [t \in Tasks |-> "play"]
    /\ vid = [t \in Tasks |-> ""]
    /\ attempt = [t \in Tasks |-> 0]
    /\ alt = [t \in Tasks |-> 1]
    /\ info = [t \in Tasks |-> InfoNone]
    /\ resp = [t \in Tasks |-> NoResponse]
    /\ trace = [t \in Tasks |-> <<>>]
    /\ victim = [t \in Tasks |-> None]

\* the handler of task t returns r
Respond(t, r) ==
    /\ pc' = [pc EXCEPT ![t] = "done"]
    /\ resp' = [resp EXCEPT ![t] = r]

\* a check that rejects only identifiers that are too short
InvalidId_TooShortOnly(id) == id = "" \/ Len(id) < 11

\* `not video_id or len(video_id) != 11`
InvalidId(id) == id = "" \/ Len(id) # 11

\* get_audio_url / redirect_to_audio, from the start to the first upstream call:
\* validation, then the cache lookup
Request(t, id, e) ==
    /\ pc[t] \in {"idle", "done"}
    /\ ep' = [ep EXCEPT ![t] = e]
    /\ vid' = [vid EXCEPT ![t] = id]
    /\ attempt' = [attempt EXCEPT ![t] = 0]
    /\ alt' = [alt EXCEPT ![t] = 1]
    /\ info' = [info EXCEPT ![t] = InfoNone]
    /\ UNCHANGED <<cache, now, ydl_ua, ydl_client, victim>>
    /\ IF InvalidId(id)
       THEN /\ trace' = [trace EXCEPT ![t] = <<>>]
            /\ Respond(t, InvalidIdentifier)
       ELSE LET cached == CacheGet(cache, id, now)
            IN  /\ trace' = [trace EXCEPT ![t] = <<GetEvent(Found(cache, id, now))>>]
                /\ IF e = "play" /\ cached # NoData
                   THEN Respond(t, PlayOk(cached, TRUE))
                   ELSE IF e = "redirect" /\ cached # NoData /\ Truthy(cached.audio_url)
                   THEN Respond(t, Redirect(cached.audio_url))
                   ELSE /\ pc' = [pc EXCEPT ![t] = "retry"]
                        /\ resp' = [resp EXCEPT ![t] = NoResponse]

\* a linear backoff, 2 * attempt, in place of the exponential one
WaitTime_Linear(a, j) == 2 * a + j

\* `wait_time = (2 ** attempt) + random.uniform(0, 1)`
WaitTime(a, j) == 2 ^ a + j

\* the `except` branch sleeps unless this was the last attempt
SleepsAfter(a) == a < max_retries - 1

\* a loop that gives up one attempt early
AfterFailure_OneShort(a) == IF a + 2 < max_retries THEN "retry" ELSE "alt"

\* where the handler goes after attempt a ended without a usable response:
\* the next iteration of `for attempt in range(max_retries)`, or, the loop over,
\* `return None` and from there get_audio_from_alternative_sources
AfterFailure(a) == IF a + 1 < max_retries THEN "retry" ELSE "alt"

\* the identity one primary attempt runs with: the copy of YDL_OPTS is shallow,
\* so the nested dicts written are those of YDL_OPTS itself
AttemptClient(a, current) == IF a > 0 THEN ReducedClient ELSE current

\* one iteration of the loop of get_audio_url_with_retry, up to the sleep:
\* the options are written, extract_info is called and its result examined
PrimaryAttempt(t) ==
    /\ pc[t] = "retry"
    /\ \E ua \in {user_agents[k] : k \in 1..Len(user_agents)} :
       LET client == AttemptClient(attempt[t], ydl_client)
       IN
       /\ ydl_ua' = ua
       /\ ydl_client' = client
       /\ \/ \* extract_info raises
             /\ trace' = [trace EXCEPT ![t] = Append(@, PrimaryEvent(attempt[t] + 1, "error", client))]
             /\ IF SleepsAfter(attempt[t])
                THEN /\ pc' = [pc EXCEPT ![t] = "backoff"]
                     /\ UNCHANGED attempt
                ELSE /\ pc' = [pc EXCEPT ![t] = AfterFailure(attempt[t])]
                     /\ attempt' = [attempt EXCEPT ![t] = @ + 1]
             /\ UNCHANGED info
          \/ \* extract_info returns
             \E r \in Responses(vid[t]) :
             /\ trace' = [trace EXCEPT ![t] = Append(@, PrimaryEvent(attempt[t] + 1, Outcome(r), client))]
             /\ IF Usable(r)
                THEN /\ pc' = [pc EXCEPT ![t] = "select"]
                     /\ info' = [info EXCEPT ![t] = r]
                     /\ UNCHANGED attempt
                ELSE /\ pc' = [pc EXCEPT ![t] = AfterFailure(attempt[t])]
                     /\ attempt' = [attempt EXCEPT ![t] = @ + 1]
                     /\ UNCHANGED info
    /\ UNCHANGED <<cache, now, ep, vid, alt, resp, victim>>

\* `time.sleep(wait_time)` and the step to the next iteration
Backoff(t) ==
    /\ pc[t] = "backoff"
    /\ \E j \in Jitter :
       /\ now + WaitTime(attempt[t], j) <= MaxTime
       /\ now' = now + WaitTime(attempt[t], j)
       /\ trace' = [trace EXCEPT ![t] = Append(@, SleepEvent(attempt[t] + 1, WaitTime(attempt[t], j)))]
    /\ attempt' = [attempt EXCEPT ![t] = @ + 1]
    /\ pc' = [pc EXCEPT ![t] = AfterFailure(attempt[t])]
    /\ UNCHANGED <<cache, ydl_ua, ydl_client, ep, vid, alt, info, resp, victim>>

\* the 404 raised when neither the retries nor the alternatives gave a response
NotFound(e) == IF e = "play" THEN PlayNotFound ELSE RedirectNotFound

\* a loop that leaves out the last alternative
MoreAlternatives_SkipLast(i) == i < Len(alternative_instances) - 1

\* `for alt_url in alternative_instances` has a next element after the i-th
MoreAlternatives(i) == i < Len(alternative_instances)

\* one iteration of the loop of get_audio_from_alternative_sources; when the list
\* is exhausted the caller raises 404
AltAttempt(t) ==
    /\ pc[t] = "alt"
    /\ \/ \* extract_info raises
          /\ trace' = [trace EXCEPT ![t] = Append(@, AltEvent(alt[t], "skipped", ydl_ua, ydl_client))]
          /\ alt' = [alt EXCEPT ![t] = @ + 1]
          /\ IF MoreAlternatives(alt[t])
             THEN UNCHANGED <<pc, resp>>
             ELSE Respond(t, NotFound(ep[t]))
          /\ UNCHANGED info
       \/ \* extract_info returns
          \E r \in Responses(vid[t]) :
          /\ trace' = [trace EXCEPT ![t] = Append(@, AltEvent(alt[t], IF Usable(r) THEN "usable" ELSE "skipped", ydl_ua, ydl_client))]
          /\ IF Usable(r)
             THEN /\ pc' = [pc EXCEPT ![t] = "select"]
                  /\ info' = [info EXCEPT ![t] = r]
                  /\ UNCHANGED <<alt, resp>>
             ELSE /\ alt' = [alt EXCEPT ![t] = @ + 1]
                  /\ IF MoreAlternatives(alt[t])
                     THEN UNCHANGED <<pc, resp>>
                     ELSE Respond(t, NotFound(ep[t]))
                  /\ UNCHANGED info
    /\ UNCHANGED <<cache, now, ydl_ua, ydl_client, ep, vid, attempt, victim>>

\* `info.get('title', 'Unknown Title')`
TitleOf(i) == IF i.has_title THEN i.title ELSE "Unknown Title"

\* the key AudioCache.set pops, None when the store is not full
Evicted(c) == IF Full(c) THEN c[1].id ELSE None

\* get_audio_url from extract_best_audio_url to the response
PlaySelect(t) ==
    /\ pc[t] = "select"
    /\ ep[t] = "play"
    /\ LET audio_url == extract_best_audio_url(info[t])
           result == Result(vid[t], TitleOf(info[t]), audio_url)
       IN  IF ~Truthy(audio_url)
           THEN /\ Respond(t, PlayNoAudio)
                /\ UNCHANGED <<cache, trace>>
           ELSE /\ cache' = CacheSet(cache, vid[t], result, now)
                /\ trace' = [trace EXCEPT ![t] = Append(@, SetEvent(Evicted(cache), now))]
                /\ IF result.title = None
                   THEN \* `result['title'][:50]` raises TypeError
                        Respond(t, PlayInternal("'NoneType' object is not subscriptable"))
                   ELSE Respond(t, PlayOk(result, FALSE))
    /\ UNCHANGED <<now, ydl_ua, ydl_client, ep, vid, attempt, alt, info, victim>>

\* redirect_to_audio from extract_best_audio_url to the response
RedirectSelect(t) ==
    /\ pc[t] = "select"
    /\ ep[t] = "redirect"
    /\ LET audio_url == extract_best_audio_url(info[t])
       IN  IF ~Truthy(audio_url)
           THEN Respond(t, RedirectNoAudio)
           ELSE Respond(t, Redirect(audio_url))
    /\ UNCHANGED <<cache, now, ydl_ua, ydl_client, ep, vid, attempt, alt, info, trace, victim>>

\* clear_cache
ClearCache(t) ==
    /\ pc[t] \in {"idle", "done"}
    /\ cache' = <<>>
    /\ ep' = [ep EXCEPT ![t] = "clear"]
    /\ vid' = [vid EXCEPT ![t] = ""]
    /\ attempt' = [attempt EXCEPT ![t] = 0]
    /\ alt' = [alt EXCEPT ![t] = 1]
    /\ info' = [info EXCEPT ![t] = InfoNone]
    /\ trace' = [trace EXCEPT ![t] = <<>>]
    /\ Respond(t, Cleared(Len(cache)))
    /\ UNCHANGED <<now, ydl_ua, ydl_client, victim>>

\* time passes
Tick ==
    /\ now < MaxTime
    /\ now' = now + 1
    /\ UNCHANGED <<cache, ydl_ua, ydl_client, pc, ep, vid, attempt, alt, info, resp, trace, victim>>

\* Requests are served one at a time, by one task.
Worker == "t1"

Next ==
    \/ \E id \in Ids, e \in {"play", "redirect"} : Request(Worker, id, e)
    \/ PrimaryAttempt(Worker)
    \/ Backoff(Worker)
    \/ AltAttempt(Worker)
    \/ PlaySelect(Worker)
    \/ RedirectSelect(Worker)
    \/ ClearCache(Worker)
    \/ Tick

Spec == Init /\ [][Next]_vars

-----------------------------------------------------------------------------
\* Properties.

W == Worker
Last(s) == s[Len(s)]
Endpoints == {"play", "redirect"}

\* the step in which the handler calls audio_cache.set
SetStep ==
    /\ pc[W] = "select"
    /\ Len(trace'[W]) = Len(trace[W]) + 1
    /\ Last(trace'[W]).ev = "set"

\* C1: the number of stored entries never exceeds the capacity, and a set of
\* an identifier that is not stored makes the size min(size + 1, capacity), so
\* that capacity + 1 distinct identifiers set into an empty cache leave exactly
\* capacity entries.
C1_CapacityBound ==
    /\ [](Len(cache) <= max_size)
    /\ [][(SetStep /\ ~HasKey(cache, vid[W])) =>
            Len(cache') = (IF Len(cache) < max_size THEN Len(cache) + 1 ELSE max_size)]_vars

\* a set of a new identifier into a full cache has just evicted a key, and the
\* cache holds capacity entries, none of them the evicted one
C1_Witness ==
    /\ pc[W] = "done"
    /\ trace[W] # <<>>
    /\ Last(trace[W]).ev = "set"
    /\ Last(trace[W]).outcome \in ValidIds \ Keys(cache)
    /\ Len(cache) = max_size
    /\ Cardinality(Keys(cache)) = max_size
    /\ Last(cache).id = vid[W]

\* C2: a /play lookup returns the stored payload iff an entry for the key is
\* present and younger than ttl; otherwise (missing, or age >= ttl) the
\* pipeline is entered with no response yet, in the same way in both cases;
\* and the set that ends a successful run leaves exactly one entry for the
\* key, stamped with the current time.
C2_TTL ==
    [][ /\ \A id \in ValidIds :
            Request(W, id, "play") =>
                IF \E i \in 1..Len(cache) : cache[i].id = id /\ now - cache[i].timestamp < ttl
                THEN /\ pc'[W] = "done"
                     /\ \E i \in 1..Len(cache) :
                            cache[i].id = id /\ resp'[W] = PlayOk(cache[i].data, TRUE)
                ELSE /\ pc'[W] = "retry"
                     /\ resp'[W] = NoResponse
                     /\ Len(trace'[W]) = 1 /\ trace'[W][1].ev = "get"
        /\ SetStep =>
             /\ Cardinality({i \in 1..Len(cache') : cache'[i].id = vid[W]}) = 1
             /\ \E i \in 1..Len(cache') :
                    cache'[i].id = vid[W] /\ cache'[i].timestamp = now
      ]_vars

\* a /play request found its entry expired, ran the pipeline and wrote the
\* entry again
C2_Witness ==
    /\ pc[W] = "done"
    /\ ep[W] = "play"
    /\ resp[W].status = 200
    /\ trace[W] # <<>>
    /\ trace[W][1] = GetEvent("expired")
    /\ Last(trace[W]) = SetEvent(Last(trace[W]).outcome, now)
    /\ \E i \in 1..Len(cache) : cache[i].id = vid[W] /\ cache[i].timestamp = now /\ now >= ttl

\* C3: a request whose identifier has a length other than 11 is answered 400
\* at once: no cache read, no upstream call, the cache unchanged.
C3_InvalidIdentifier ==
    [][\A id \in Ids, e \in Endpoints :
          (Len(id) # 11 /\ Request(W, id, e)) =>
              /\ pc'[W] = "done"
              /\ resp'[W] = InvalidIdentifier
              /\ trace'[W] = <<>>
              /\ cache' = cache]_vars

\* an over-long identifier was rejected while the cache held entries
C3_Witness ==
    /\ pc[W] = "done"
    /\ ep[W] \in Endpoints
    /\ Len(vid[W]) > 11
    /\ resp[W] = InvalidIdentifier
    /\ trace[W] = <<>>
    /\ cache # <<>>

\* the events of the retry orchestrator, of its upstream calls, and of the
\* fallback chain
IsRetryEvent(e) == e.ev \in {"primary", "sleep"}
IsPrimary(e) == e.ev = "primary"
IsAlt(e) == e.ev = "alt"
RetryPart(tr) == SelectSeq(tr, IsRetryEvent)
Primaries(tr) == SelectSeq(tr, IsPrimary)
Alts(tr) == SelectSeq(tr, IsAlt)
AllErrors(tr) == \A i \in 1..Len(tr) : IsPrimary(tr[i]) => tr[i].outcome = "error"
NoneUsable(s) == \A i \in 1..Len(s) : s[i].outcome # "usable"
\* the fallback chain has been entered
InFallback == pc[W] = "alt" \/ Alts(trace[W]) # <<>>

\* C4: while every attempt fails with an upstream error, the orchestrator's
\* events are attempt 1, sleep, attempt 2, sleep, attempt 3: the sleep after
\* attempt n lasts between 2^(n-1) and 2^(n-1)+1 seconds, there is none after
\* the last attempt, and once the orchestrator is left exactly max_retries
\* attempts were made and the fallback chain is entered (absent was returned).
C4_AllAttemptsFail ==
    LET R == RetryPart(trace[W])
    IN  AllErrors(trace[W]) =>
          /\ Len(R) <= 2 * max_retries - 1
          /\ \A i \in 1..Len(R) :
                IF i % 2 = 1
                THEN R[i].ev = "primary" /\ R[i].n = (i + 1) \div 2
                ELSE /\ R[i].ev = "sleep"
                     /\ R[i].n = i \div 2
                     /\ R[i].d >= 2 ^ (R[i].n - 1)
                     /\ R[i].d <= 2 ^ (R[i].n - 1) + 1
          /\ (R # <<>> /\ pc[W] \notin {"retry", "backoff"}) =>
                /\ Len(Primaries(trace[W])) = max_retries
                /\ Len(R) = 2 * max_retries - 1
                /\ InFallback

\* three attempts have failed with an error, two sleeps lie between them and
\* the fallback chain is about to start
C4_Witness ==
    /\ pc[W] = "alt"
    /\ alt[W] = 1
    /\ AllErrors(trace[W])
    /\ Len(Primaries(trace[W])) = 3
    /\ Len(RetryPart(trace[W])) = 5
    /\ Alts(trace[W]) = <<>>

\* C5: every attempt n + 1 is preceded by the backoff sleep of attempt n, of
\* between 2^(n-1) and 2^(n-1)+1 seconds, whether attempt n raised or returned
\* nothing usable.
C5_BackoffBeforeEveryRetry ==
    \A i \in 1..Len(trace[W]) :
        (IsPrimary(trace[W][i]) /\ trace[W][i].n > 1) =>
            /\ i > 1
            /\ trace[W][i - 1].ev = "sleep"
            /\ trace[W][i - 1].n = trace[W][i].n - 1
            /\ trace[W][i - 1].d >= 2 ^ (trace[W][i].n - 2)
            /\ trace[W][i - 1].d <= 2 ^ (trace[W][i].n - 2) + 1

\* C6: nothing of the orchestrator or of the fallback chain follows a usable
\* primary response, and the fallback chain runs only after max_retries
\* primary attempts, none of them usable, and no primary attempt follows it.
C6_StopAtFirstUsable ==
    LET tr == trace[W]
    IN  /\ \A i, j \in 1..Len(tr) :
              (i < j /\ IsPrimary(tr[i]) /\ tr[i].outcome = "usable") =>
                  tr[j].ev \notin {"primary", "sleep", "alt"}
        /\ InFallback =>
              /\ Len(Primaries(tr)) = max_retries
              /\ NoneUsable(Primaries(tr))
        /\ \A i, j \in 1..Len(tr) : (IsAlt(tr[i]) /\ IsRetryEvent(tr[j])) => j < i

\* the second primary attempt was usable and the request was answered from it
C6_Witness ==
    /\ pc[W] = "done"
    /\ resp[W].status \in {200, 307}
    /\ Len(Primaries(trace[W])) = 2
    /\ Primaries(trace[W])[2].outcome = "usable"
    /\ Alts(trace[W]) = <<>>

\* C7: the alternative endpoints are called in list order, each at most once;
\* the chain goes on after an endpoint only when that one was skipped, and
\* nothing upstream follows a usable one; the 404 of a failed resolution comes
\* only after max_retries primary attempts and all the alternatives, none of
\* which gave a usable response.
C7_FallbackOrder ==
    LET tr == trace[W]
        A  == Alts(tr)
    IN  /\ Len(A) <= Len(alternative_instances)
        /\ \A k \in 1..Len(A) : A[k].n = k /\ (k < Len(A) => A[k].outcome = "skipped")
        /\ pc[W] = "alt" => (NoneUsable(A) /\ alt[W] = Len(A) + 1)
        /\ \A i, j \in 1..Len(tr) :
              (i < j /\ IsAlt(tr[i]) /\ tr[i].outcome = "usable") =>
                  tr[j].ev \notin {"primary", "sleep", "alt"}
        /\ (pc[W] = "done" /\ resp[W] \in {PlayNotFound, RedirectNotFound}) =>
              /\ Len(Primaries(tr)) = max_retries
              /\ NoneUsable(Primaries(tr))
              /\ Len(A) = Len(alternative_instances)
              /\ NoneUsable(A)

\* a /play request ended 404 after three primary attempts and four alternatives
C7_Witness ==
    /\ pc[W] = "done"
    /\ resp[W] = PlayNotFound
    /\ Len(Primaries(trace[W])) = 3
    /\ Len(Alts(trace[W])) = 4

\* C8: when all three primary attempts failed with an error and the first
\* alternative endpoint returned a usable response from which the format
\* selector picks a URL, get_audio_url answers 200 with that URL, uncached, and
\* the cache then holds that result under the identifier.
C8_FallbackSuccessCached ==
    [][(/\ pc[W] = "select"
        /\ ep[W] = "play"
        /\ pc'[W] = "done"
        /\ Len(Primaries(trace[W])) = max_retries
        /\ AllErrors(trace[W])
        /\ Len(Alts(trace[W])) = 1
        /\ Alts(trace[W])[1].outcome = "usable"
        /\ Truthy(extract_best_audio_url(info[W])))
       =>
       (/\ resp'[W] = PlayOk(Result(vid[W], TitleOf(info[W]), extract_best_audio_url(info[W])), FALSE)
        /\ \E i \in 1..Len(cache') :
              cache'[i].id = vid[W] /\ cache'[i].data = resp'[W].body)]_vars

\* C9: a /play request that follows a successful uncached /play response for
\* the same identifier within ttl of it is answered at once from the cache,
\* with the same content flagged cached, and makes no upstream call.
C9_SecondCallCached ==
    [][\A id \in ValidIds :
          (/\ pc[W] = "done"
           /\ ep[W] = "play"
           /\ vid[W] = id
           /\ resp[W].status = 200
           /\ ~resp[W].cached
           /\ trace[W] # <<>>
           /\ Last(trace[W]).ev = "set"
           /\ now - Last(trace[W]).at < ttl
           /\ Request(W, id, "play"))
          =>
          (/\ pc'[W] = "done"
           /\ resp'[W] = [resp[W] EXCEPT !.cached = TRUE]
           /\ Primaries(trace'[W]) = <<>>
           /\ Alts(trace'[W]) = <<>>)]_vars

\* a /play request was answered from an entry written less than ttl ago
C9_Witness ==
    /\ pc[W] = "done"
    /\ ep[W] = "play"
    /\ resp[W].status = 200
    /\ resp[W].cached
    /\ resp[W].body.video_id = vid[W]
    /\ trace[W] = <<GetEvent("hit")>>
    /\ \E i \in 1..Len(cache) :
          cache[i].id = vid[W] /\ cache[i].data = resp[W].body /\ now - cache[i].timestamp < ttl

\* C10: every call of the fallback chain is made with the User-Agent and the
\* player_client YDL_OPTS is defined with.
C10_FallbackDefaultIdentity ==
    \A i \in 1..Len(trace[W]) :
        IsAlt(trace[W][i]) =>
            trace[W][i].ua = DefaultUA /\ trace[W][i].client = DefaultClient

\* C11: the identity of a primary attempt depends only on its own attempt
\* number: attempt 1 of every invocation runs with the player_client YDL_OPTS is
\* defined with, and attempts 2 and 3 with the reduced one, whatever invocations
\* ran before.
C11_AttemptIdentity ==
    \A i \in 1..Len(trace[W]) :
        IsPrimary(trace[W][i]) =>
            trace[W][i].client = (IF trace[W][i].n = 1 THEN DefaultClient ELSE ReducedClient)


-----------------------------------------------------------------------------
\* Concurrent requests. get_audio_url, redirect_to_audio and clear_cache are
\* plain `def` endpoints, which the framework runs on the threads of a pool, one
\* per request in flight; AudioCache takes no lock, so the statements of
\* AudioCache.set of one thread interleave with the cache operations of the
\* others. The two loops that resolve an identifier upstream touch the cache
\* nowhere and are taken as one step here.

\* `self.cache.pop(key)` on a store that holds key
CachePop(c, k) ==
    LET Keep(e) == e.id # k
    IN  SelectSeq(c, Keep)

\* `self.cache[video_id] = {"data": data, "timestamp": time.time()}`
CacheStore(c, id, data, t) ==
    LET e == [id |-> id, data |-> data, timestamp |-> t]
    IN  IF HasKey(c, id) THEN [c EXCEPT ![KeyIndex(c, id)] = e] ELSE Append(c, e)

\* str(e) of the KeyError that dict.pop raises for a key not stored
KeyErrorText(k) == "'" \o k \o "'"
\* str(e) of the StopIteration that next() raises on an exhausted iterator
StopIterationText == ""
\* str(e) of the TypeError of `None[:50]`
NotSubscriptable == "'NoneType' object is not subscriptable"

\* get_audio_url_with_retry, then get_audio_from_alternative_sources if it
\* returned None: a usable response for the identifier or, with none, the 404.
\* The attempts made leave their identity in YDL_OPTS.
Resolve(t) ==
    /\ pc[t] = "retry"
    /\ \E ua \in {user_agents[k] : k \in 1..Len(user_agents)},
          client \in {ydl_client, ReducedClient} :
          ydl_ua' = ua /\ ydl_client' = client
    /\ \/ \E r \in Catalog(vid[t]) :
            /\ pc' = [pc EXCEPT ![t] = "select"]
            /\ info' = [info EXCEPT ![t] = r]
            /\ UNCHANGED resp
       \/ /\ Respond(t, NotFound(ep[t]))
          /\ UNCHANGED info
    /\ UNCHANGED <<cache, now, ep, vid, attempt, alt, trace, victim>>

\* get_audio_url from extract_best_audio_url to the call of audio_cache.set
PlayExtract(t) ==
    /\ pc[t] = "select"
    /\ ep[t] = "play"
    /\ IF ~Truthy(extract_best_audio_url(info[t]))
       THEN Respond(t, PlayNoAudio)
       ELSE pc' = [pc EXCEPT ![t] = "set"] /\ UNCHANGED resp
    /\ UNCHANGED <<cache, now, ydl_ua, ydl_client, ep, vid, attempt, alt, info, trace, victim>>

\* AudioCache.set: `if len(self.cache) >= self.max_size`
SetCheck(t) ==
    /\ pc[t] = "set"
    /\ pc' = [pc EXCEPT ![t] = IF Full(cache) THEN "set_next" ELSE "set_store"]
    /\ victim' = [victim EXCEPT ![t] = None]
    /\ UNCHANGED <<cache, now, ydl_ua, ydl_client, ep, vid, attempt, alt, info, resp, trace>>

\* AudioCache.set: `next(iter(self.cache))`, which raises StopIteration on an
\* empty dict; the exception leaves set and get_audio_url turns it into a 500
SetNext(t) ==
    /\ pc[t] = "set_next"
    /\ IF cache = <<>>
       THEN /\ Respond(t, PlayInternal(StopIterationText))
            /\ UNCHANGED victim
       ELSE /\ victim' = [victim EXCEPT ![t] = cache[1].id]
            /\ pc' = [pc EXCEPT ![t] = "set_pop"]
            /\ UNCHANGED resp
    /\ UNCHANGED <<cache, now, ydl_ua, ydl_client, ep, vid, attempt, alt, info, trace>>

\* AudioCache.set: `self.cache.pop(...)`, which raises KeyError when the key is
\* no longer stored
SetPop(t) ==
    /\ pc[t] = "set_pop"
    /\ IF HasKey(cache, victim[t])
       THEN /\ cache' = CachePop(cache, victim[t])
            /\ pc' = [pc EXCEPT ![t] = "set_store"]
            /\ UNCHANGED resp
       ELSE /\ Respond(t, PlayInternal(KeyErrorText(victim[t])))
            /\ UNCHANGED cache
    /\ UNCHANGED <<now, ydl_ua, ydl_client, ep, vid, attempt, alt, info, trace, victim>>

\* AudioCache.set: the store of the entry, after which set returns
SetStore(t) ==
    /\ pc[t] = "set_store"
    /\ cache' = CacheStore(cache, vid[t],
                           Result(vid[t], TitleOf(info[t]), extract_best_audio_url(info[t])), now)
    /\ trace' = [trace EXCEPT ![t] = Append(@, SetEvent(victim[t], now))]
    /\ pc' = [pc EXCEPT ![t] = "log"]
    /\ UNCHANGED <<now, ydl_ua, ydl_client, ep, vid, attempt, alt, info, resp, victim>>

\* get_audio_url after audio_cache.set: the log line and the response
PlayLog(t) ==
    /\ pc[t] = "log"
    /\ LET result == Result(vid[t], TitleOf(info[t]), extract_best_audio_url(info[t]))
       IN  IF result.title = None
           THEN Respond(t, PlayInternal(NotSubscriptable))
           ELSE Respond(t, PlayOk(result, FALSE))
    /\ UNCHANGED <<cache, now, ydl_ua, ydl_client, ep, vid, attempt, alt, info, trace, victim>>

\* Two threads serve /play and /cache/clear requests; the requests overlap
\* within one instant of the clock.
NextConc ==
    \E t \in Tasks :
        \/ \E id \in ValidIds : Request(t, id, "play")
        \/ Resolve(t)
        \/ PlayExtract(t)
        \/ SetCheck(t)
        \/ SetNext(t)
        \/ SetPop(t)
        \/ SetStore(t)
        \/ PlayLog(t)
        \/ ClearCache(t)

SpecConc == Init /\ [][NextConc]_vars

\* AudioCache.set raised in the current request of task t: the request ended
\* in a 500 before the store
SetRaised(t) ==
    /\ pc[t] = "done"
    /\ ep[t] = "play"
    /\ resp[t].status = 500
    /\ Last(trace[t]).ev # "set"

\* C12: under every interleaving of requests and cache clears, no call of
\* AudioCache.set raises and the store never holds more than max_size entries.
C12_SetSerialized ==
    /\ Len(cache) <= max_size
    /\ \A t \in Tasks : ~SetRaised(t)


-----------------------------------------------------------------------------
\* The format selector on arbitrary raw responses.

\* (acodec, vcodec) of a candidate: audio only, audio with video, video only
Codecs == {<<"mp4a", "none">>, <<"mp4a", "avc1">>, <<"none", "avc1">>}
\* (abr, filesize) of a candidate, either of them possibly absent
Sizes == {<<NoNum, NoNum>>, <<128, NoNum>>, <<128, 10>>, <<256, NoNum>>}
\* the URL of the k-th candidate, when it has one
UrlAt(k) == "https://cdn/f" \o ToString(k)

\* what is drawn for one candidate: its codecs, its bitrate and size, and
\* whether it has a URL
Choices == Codecs \X Sizes \X BOOLEAN

\* the candidate list of n elements drawn as ch, the URLs all different
Formats(n, ch) ==
    [k \in 1..n |-> Fmt(ch[k][1][1], ch[k][1][2], ch[k][2][1], ch[k][2][2],
                        IF ch[k][3] THEN UrlAt(k) ELSE None)]

\* the top-level URLs drawn with a list of n candidates: a usable response
\* without candidates has one, and one with a single candidate may have one
TopUrls(n) == IF n = 0 THEN {"https://cdn/direct"}
              ELSE IF n = 1 THEN {None, "https://cdn/direct"} ELSE {None}

RawInfo(url, formats) ==
    [present |-> TRUE, url |-> url, formats |-> formats, title |-> "Song", has_title |-> TRUE]

\* redirect_to_audio holding a usable raw response of the first attempt,
\* about to call extract_best_audio_url
InitSel ==
    /\ cache = <<>>
    /\ now = 0
    /\ ydl_ua = DefaultUA
    /\ ydl_client = DefaultClient
    /\ pc = [t \in Tasks |-> IF t = Worker THEN "select" ELSE "idle"]
    /\ ep = [t \in Tasks |-> IF t = Worker THEN "redirect" ELSE "play"]
    /\ vid = [t \in Tasks |-> IF t = Worker THEN "aaaaaaaaaaa" ELSE ""]
    /\ attempt = [t \in Tasks |-> 0]
    /\ alt = [t \in Tasks |-> 1]
    /\ \E n \in 0..MaxFormats : \E ch \in [1..n -> Choices] : \E url \in TopUrls(n) :
          info = [t \in Tasks |-> IF t = Worker THEN RawInfo(url, Formats(n, ch)) ELSE InfoNone]
    /\ resp = [t \in Tasks |-> NoResponse]
    /\ trace = [t \in Tasks |->
                  IF t = Worker
                  THEN <<GetEvent("missing"), PrimaryEvent(1, "usable", DefaultClient)>>
                  ELSE <<>>]
    /\ victim = [t \in Tasks |-> None]

NextSel == RedirectSelect(Worker)

SpecSel == InitSel /\ [][NextSel]_vars

\* the raw response given to the selector and what the selector returned
Given == info[W]
Selected == resp[W].location
Selecting == pc[W] = "done" /\ ep[W] = "redirect"
\* the k-th candidate has its audio codec present / is audio-only
HasAudio(k) == Given.formats[k].acodec # "none"
AudioOnly(k) == HasAudio(k) /\ Given.formats[k].vcodec = "none"
Candidates == 1..Len(Given.formats)
\* (bitrate, size) of the k-th candidate, absent counting as zero
Rank(k) ==
    LET f == Given.formats[k]
    IN  << IF f.abr = NoNum THEN 0 ELSE f.abr, IF f.filesize = NoNum THEN 0 ELSE f.filesize >>
Outranks(j, k) ==
    Rank(j)[1] > Rank(k)[1] \/ (Rank(j)[1] = Rank(k)[1] /\ Rank(j)[2] > Rank(k)[2])

\* C13: the selector returns the top-level URL when there is one; otherwise,
\* when some candidate is audio-only, it returns the URL of an audio-only
\* candidate that no audio-only candidate outranks by (bitrate, size), and
\* never the URL of a candidate that carries video.
C13_BestAudioOnly ==
    Selecting =>
        /\ Given.url # None => Selected = Given.url
        /\ (Given.url = None /\ \E k \in Candidates : AudioOnly(k)) =>
              /\ \E k \in Candidates :
                    /\ AudioOnly(k)
                    /\ \A j \in Candidates : AudioOnly(j) => ~Outranks(j, k)
                    /\ Selected = Given.formats[k].url
              /\ \A j \in Candidates :
                    (Given.formats[j].vcodec # "none" /\ Given.formats[j].url # None) =>
                        Selected # Given.formats[j].url

\* of two audio-only candidates of equal bitrate the later, larger one was
\* selected, past a first candidate that carries video and a URL
C13_Witness ==
    /\ Selecting
    /\ Given.url = None
    /\ Len(Given.formats) = 3
    /\ HasAudio(1) /\ ~AudioOnly(1) /\ Given.formats[1].url # None
    /\ AudioOnly(2) /\ AudioOnly(3)
    /\ Given.formats[2].url # None
    /\ Rank(2)[1] = Rank(3)[1]
    /\ Outranks(3, 2)
    /\ Selected = Given.formats[3].url
    /\ Selected # None


\* the raw response has no top-level URL and no audio-only candidate
NoAudioOnly == Given.url = None /\ \A k \in Candidates : ~AudioOnly(k)
HasUrl(k) == Given.formats[k].url # None

\* C14, as stated: with no top-level URL and no audio-only candidate, the
\* selector returns the URL of the first candidate, in list order, whose audio
\* codec is present.
C14_FirstWithAudio ==
    (Selecting /\ NoAudioOnly) =>
        IF \E k \in Candidates : HasAudio(k)
        THEN \E k \in Candidates :
                /\ HasAudio(k)
                /\ \A j \in 1..(k - 1) : ~HasAudio(j)
                /\ Selected = Given.formats[k].url
        ELSE Selected = None

\* C14, amended: with no top-level URL and no audio-only candidate, the
\* selector returns the URL of the first candidate, in list order, whose audio
\* codec is present and which has a URL, and absent when there is none.
C14_FirstWithAudioAndUrl ==
    (Selecting /\ NoAudioOnly) =>
        IF \E k \in Candidates : HasAudio(k) /\ HasUrl(k)
        THEN \E k \in Candidates :
                /\ HasAudio(k) /\ HasUrl(k)
                /\ \A j \in 1..(k - 1) : ~(HasAudio(j) /\ HasUrl(j))
                /\ Selected = Given.formats[k].url
        ELSE Selected = None

\* after a video-only candidate and a candidate with audio but no URL, the
\* third candidate, with audio, video and a URL, was selected
C14_Witness ==
    /\ Selecting
    /\ NoAudioOnly
    /\ Len(Given.formats) = 3
    /\ ~HasAudio(1) /\ HasUrl(1)
    /\ HasAudio(2) /\ ~HasUrl(2)
    /\ HasAudio(3) /\ HasUrl(3)
    /\ Selected = Given.formats[3].url


\* C15: when the handler holds a usable raw response from which the selector
\* gets no URL, its next step ends the request with the 404 "No audio stream
\* found": no further upstream call or sleep, nothing written to the cache.
C15_NoPlayableAssetImmediate ==
    [][(pc[W] = "select" /\ extract_best_audio_url(info[W]) = None /\ pc'[W] # "select") =>
          /\ pc'[W] = "done"
          /\ resp'[W] = (IF ep[W] = "play" THEN PlayNoAudio ELSE RedirectNoAudio)
          /\ cache' = cache
          /\ trace' = trace]_vars

\* a /play request ended in "No audio stream found" on the usable response of
\* an alternative endpoint, reached after three primary attempts, while the
\* cache held an entry
C15_Witness ==
    /\ pc[W] = "done"
    /\ ep[W] = "play"
    /\ resp[W] = PlayNoAudio
    /\ extract_best_audio_url(info[W]) = None
    /\ Len(Primaries(trace[W])) = max_retries
    /\ Last(trace[W]).ev = "alt"
    /\ Last(trace[W]).outcome = "usable"
    /\ Len(Alts(trace[W])) < Len(alternative_instances)
    /\ cache # <<>>


\* the request of task t was ended by the `except Exception` handler
EndedInternal(t) == pc[t] = "done" /\ ep[t] = "play" /\ resp[t].status = 500

\* C16: the response to an unexpected failure does not depend on the text of
\* the internal error: two /play requests for the same identifier that were
\* both ended by an unexpected exception got the same response.
C16_GenericInternal ==
    \A a, b \in Tasks :
        (EndedInternal(a) /\ EndedInternal(b) /\ vid[a] = vid[b]) => resp[a] = resp[b]


\* the keys of a store, in iteration order
KeyOrder(c) == [i \in 1..Len(c) |-> c[i].id]

\* C17: a set called with max_size or more entries stored first removes the
\* entry that is first in iteration order, whether or not the identifier is
\* stored already, and a set called with fewer removes nothing; the identifier
\* then keeps its position if it is still stored and is added last otherwise,
\* every other entry is left as it was, and the identifier maps to the result
\* stamped with the current time.
C17_SetEvictsFirst ==
    [][SetStep =>
          LET id   == vid[W]
              rest == IF Len(cache) >= max_size THEN SubSeq(cache, 2, Len(cache)) ELSE cache
              kept == \E i \in 1..Len(rest) : rest[i].id = id
          IN  /\ KeyOrder(cache') = (IF kept THEN KeyOrder(rest) ELSE Append(KeyOrder(rest), id))
              /\ \A i \in 1..Len(rest) : rest[i].id # id => cache'[i] = rest[i]
              /\ \A i \in 1..Len(cache') :
                    cache'[i].id = id =>
                        /\ cache'[i].timestamp = now
                        /\ cache'[i].data.video_id = id
                        /\ cache'[i].data.audio_url = extract_best_audio_url(info[W])
                        /\ cache'[i].data.title = TitleOf(info[W])
                        /\ cache'[i].data.success
              /\ Last(trace'[W]).outcome =
                    (IF Len(cache) >= max_size THEN cache[1].id ELSE None)]_vars

\* a set of an identifier already stored, called on a full cache, evicted
\* another key and left max_size - 1 entries
C17_Witness ==
    /\ pc[W] = "done"
    /\ trace[W] # <<>>
    /\ trace[W][1] = GetEvent("expired")
    /\ Last(trace[W]).ev = "set"
    /\ Last(trace[W]).outcome \in ValidIds \ {vid[W]}
    /\ Len(cache) = max_size - 1
    /\ HasKey(cache, vid[W])


\* the statuses of a failed request
Failures == {400, 404, 500}

\* C18: the step that ends a request in a failure leaves the cache as it was,
\* and every stored entry is keyed by the identifier of its own result, which
\* is a success and has a stream URL.
C18_FailureLeavesCache ==
    /\ [](\A i \in 1..Len(cache) :
             /\ cache[i].data.video_id = cache[i].id
             /\ cache[i].data.success
             /\ cache[i].data.audio_url # None)
    /\ [][(pc[W] # "done" /\ pc'[W] = "done" /\ ep'[W] \in Endpoints
           /\ resp'[W].status \in Failures) => cache' = cache]_vars


\* the current request ran the pipeline on a cache miss and succeeded
RanPipeline(e) ==
    /\ pc[W] = "done"
    /\ ep[W] = e
    /\ trace[W] # <<>>
    /\ trace[W][1] \in {GetEvent("missing"), GetEvent("expired")}
    /\ resp[W].status \in {200, 307}

\* C19: a successful run of the pipeline on a cache miss leaves the record in
\* the cache, whichever entry point ran it: after redirect_to_audio answered
\* with a redirect it resolved upstream, the cache holds an entry for the
\* identifier with the URL redirected to (so that the next request within ttl
\* is a hit).
C19_EveryEntryPointCaches ==
    \A e \in Endpoints :
        RanPipeline(e) =>
            \E i \in 1..Len(cache) :
                /\ cache[i].id = vid[W]
                /\ cache[i].data.audio_url \in {resp[W].location, resp[W].body.audio_url}


\* C20: the selector returns absent exactly when the raw response has no
\* top-level URL and no candidate with its audio codec present has a URL.
C20_AbsentIffNothingQualifies ==
    Selecting =>
        (Selected = None <=>
            (Given.url = None /\ \A k \in Candidates : ~(HasAudio(k) /\ HasUrl(k))))


====
